---- MODULE Spec2Model ----
(***************************************************************************)
(* Streaming chat pipeline of the FRED terminal: useChat.sendMessage /     *)
(* stopMessage, api.sendMessageStream, the chat store and the UI store,    *)
(* and around them the session history store, the portfolio store and the  *)
(* handlers of New Chat, Restore Session and sign-out.                     *)
(*                                                                         *)
(* Strings are sequences of one-character strings, so that the fence       *)
(* regex and trim() are computed character by character.                   *)
(***************************************************************************)
EXTENDS Integers, Sequences, FiniteSets, TLC

VARIABLES
    \* chat store (chatStore.ts)
    messages,    \* sequence of [id, role, type, content]
    isLoading,
    sessionId,
    logs,
    chips,
    \* UI store (uiStore.ts)
    watchedIndicators,
    \* useChat hook and the send in flight
    abortControllerRef,  \* [set, aborted]: whether the ref holds a controller,
                         \* and whether that controller's signal is aborted
    send,        \* the current (or last) sendMessage call: position, closure,
                 \* and the event types and token fragments dispatched so far
    doneIds,     \* the sessionIds of the done events handled during that send
    nextId,      \* stands for generateId(): the next fresh message id
    work,        \* sendMessage calls, chip drops and stream events so far
    \* a fred_search_results event on its own
    evIndicators,  \* the indicator list of the event
    evFired,       \* whether the event has been dispatched
    \* the token handler on its own
    accMode,     \* which piece alphabet the accumulator run draws from
    accUsed,     \* number of pieces the fragments fed so far were cut from
    accFeed,     \* prose runs: every fragment fed so far, in arrival order
    accLast,     \* the fragment of the last token, <<>> before the first
    accTokens,   \* whether a token has been applied
    accPrev,     \* m.content before the last token was applied
    accContent,  \* m.content of the streaming message
    \* the read loop of api.sendMessageStream on its own
    sseLines,       \* the lines of the response body
    sseTerminated,  \* whether the last line of the body ends with a newline
    ssePos,         \* number of characters of the body read so far
    buffer,         \* the carried-over partial line
    sseDispatched,  \* the values handed to onEvent, in order
    sseStatus,      \* "reading", "returned" or "failed"
    \* the components around the hook: renders, streams side by side
    render,         \* the store values the last render handed to the callbacks
    streams,        \* the open calls of api.sendMessageStream, oldest first
    signalOwner,    \* streaming id of the send whose controller the ref holds
    lastCall,       \* the handler that ran last, and what it was given
    \* session history store (sessionHistoryStore.ts)
    sessions,       \* sequence of [id, title, messages, createdAt, updatedAt]
    clock,          \* stands for new Date(): the current time
    \* portfolio store (portfolioStore.ts) and the server behind it
    portfolioId,
    holdings,       \* sequence of [id, ticker, quantity]
    isSyncing,
    pending,        \* the store calls that await their server response
    serverHoldings  \* the rows of the portfolio on the server

accVars == <<accMode, accUsed, accFeed, accLast, accTokens, accPrev, accContent>>

sseVars == <<sseLines, sseTerminated, ssePos, buffer, sseDispatched, sseStatus>>

chatVars == <<messages, isLoading, sessionId, logs, chips>>
hookVars == <<abortControllerRef, send, doneIds, nextId, work>>
evVars == <<evIndicators, evFired>>
uiVars == <<render, streams, signalOwner, lastCall>>
histVars == <<sessions, clock>>
portVars == <<portfolioId, holdings, isSyncing, pending, serverHoldings>>
appVars == <<uiVars, histVars, portVars>>

vars == <<messages, isLoading, sessionId, logs, chips, watchedIndicators,
          abortControllerRef, send, doneIds, nextId, work,
          evIndicators, evFired,
          accMode, accUsed, accFeed, accLast, accTokens, accPrev, accContent,
          sseLines, sseTerminated, ssePos, buffer, sseDispatched, sseStatus,
          render, streams, signalOwner, lastCall, sessions, clock,
          portfolioId, holdings, isSyncing, pending, serverHoldings>>

(***************************************************************************)
(* Bounds                                                                  *)
(***************************************************************************)
\* total number of pieces (delimiters, words, blanks) one token stream holds
MaxPieces == 6
\* length of the longest indicator list a fred_search_results event carries
MaxIndicators == 6
\* sendMessage calls, chip drops and stream events in one run, together
MaxWork == 4
\* number of lines of a response body
MaxLines == 3
\* length of the id lists handed to the watch list in any combination
MaxList == 2

(***************************************************************************)
(* Strings                                                                 *)
(***************************************************************************)
\* the backquote character (SANY accepts no backquote inside a string)
BQ == "bq"
\* the opening delimiter, three backquotes and json; the closing one, three backquotes
OPEN == <<BQ, BQ, BQ, "j", "s", "o", "n">>
CLOSE == <<BQ, BQ, BQ>>
JSON == <<"j", "s", "o", "n">>
SP == <<" ">>
X == <<"x">>
HELLO == <<"H", "e", "l", "l", "o">>
WORLD == <<"w", "o", "r", "l", "d">>

\* String.prototype.trim() whitespace
IsWs(c) == c \in {" ", "\n", "\t"}

MatchAt(s, i, pat) ==
    /\ i >= 1
    /\ i + Len(pat) - 1 <= Len(s)
    /\ SubSeq(s, i, i + Len(pat) - 1) = pat

\* index of the leftmost occurrence of pat in s at or after i, 0 when none
FindFrom(s, i, pat) ==
    LET hits == {j \in i..Len(s) : MatchAt(s, j, pat)}
    IN  IF hits = {} THEN 0 ELSE CHOOSE j \in hits : \A k \in hits : j <= k

Contains(s, pat) == FindFrom(s, 1, pat) # 0

Min(S) == CHOOSE x \in S : \A y \in S : x <= y
Max(S) == CHOOSE x \in S : \A y \in S : x >= y

\* String.prototype.trim()
Trim(s) ==
    LET keep == {i \in 1..Len(s) : ~IsWs(s[i])}
    IN  IF keep = {} THEN <<>> ELSE SubSeq(s, Min(keep), Max(keep))

RECURSIVE Concat(_)
Concat(ss) == IF ss = <<>> THEN <<>> ELSE Head(ss) \o Concat(Tail(ss))

(***************************************************************************)
(* Token handler: raw = content + fragment;                                *)
(* clean = raw.replace(/OPEN[\s\S]*?CLOSE/g, "").trim()                   *)
(***************************************************************************)
\* a greedy [\s\S]* instead of the lazy one: the last closing delimiter
CloserForGreedy(s, p) ==
    LET hits == {j \in (p + Len(OPEN))..Len(s) : MatchAt(s, j, CLOSE)}
    IN  IF hits = {} THEN 0 ELSE Max(hits)

\* index of the closing delimiter the lazy [\s\S]*? stops at, for an opener
\* matched at p; 0 when no closing delimiter follows
CloserFor(s, p) == FindFrom(s, p + Len(OPEN), CLOSE)

RECURSIVE ReplaceFrom(_, _)
\* the global replace, scanning s from index i: leftmost opener, nearest
\* closer, drop the match, go on after it
ReplaceFrom(s, i) ==
    LET p == FindFrom(s, i, OPEN)
    IN  IF p = 0 THEN SubSeq(s, i, Len(s))
        ELSE LET q == CloserFor(s, p)
             IN  IF q = 0 THEN SubSeq(s, i, Len(s))
                 ELSE SubSeq(s, i, p - 1) \o ReplaceFrom(s, q + Len(CLOSE))

\* a replace that also drops an opening delimiter no closing one follows
CleanDropsOpen(raw) ==
    LET kept == ReplaceFrom(raw, 1)
        p == FindFrom(kept, 1, OPEN)
    IN  Trim(IF p = 0 THEN kept
             ELSE SubSeq(kept, 1, p - 1) \o SubSeq(kept, p + Len(OPEN), Len(kept)))

Clean(raw) == Trim(ReplaceFrom(raw, 1))

\* (m.content || '') + (event.content || '')
Raw(content, fragment) == content \o fragment

TokenContent(content, fragment) == Clean(Raw(content, fragment))

(***************************************************************************)
(* case 'fred_search_results': sort by category, take the ids, keep five   *)
(***************************************************************************)
\* event.indicators is a sequence of [id, category]; the category "none"
\* stands for a missing category field, "other" for one the table lacks
Categories == {"sector", "macro", "risk", "none", "other"}

\* ids.slice(0, 5) in the handler
FredSlice == 5
\* ids.slice(0, 5) in setWatchedIndicators
WatchSlice == 5

\* (order[c] ?? 1) with the default changed to 0
RankDefaultsToSector(category) ==
    CASE category = "sector" -> 0
      [] category = "macro" -> 1
      [] category = "risk" -> 2
      [] OTHER -> 0

\* order = { sector: 0, macro: 1, risk: 2 }; (order[category] ?? 1)
Rank(category) ==
    CASE category = "sector" -> 0
      [] category = "macro" -> 1
      [] category = "risk" -> 2
      [] OTHER -> 1

\* the comparator handed to sort()
Compare(a, b) == Rank(a.category) - Rank(b.category)

RECURSIVE InsertStable(_, _)
\* x placed behind every element that does not compare greater than it
InsertStable(sorted, x) ==
    IF sorted = <<>> THEN <<x>>
    ELSE IF Compare(Head(sorted), x) > 0 THEN <<x>> \o sorted
    ELSE <<Head(sorted)>> \o InsertStable(Tail(sorted), x)

RECURSIVE SortIndicators(_)
\* [...event.indicators].sort(comparator): Array.prototype.sort is stable
SortIndicators(inds) ==
    IF inds = <<>> THEN <<>>
    ELSE InsertStable(SortIndicators(SubSeq(inds, 1, Len(inds) - 1)), inds[Len(inds)])

\* Array.prototype.slice(0, n)
Slice(seq, n) == SubSeq(seq, 1, IF Len(seq) < n THEN Len(seq) ELSE n)

\* setWatchedIndicators(ids)
setWatchedIndicators(ids) == Slice(ids, WatchSlice)

\* the most ids addWatchIndicator lets the list grow to
WatchLimit == 5

\* addWatchIndicator without the length guard
addWatchIndicatorUnbounded(watched, id) ==
    IF \E i \in 1..Len(watched) : watched[i] = id THEN watched ELSE Append(watched, id)

\* addWatchIndicator(id): nothing changes when the id is there or the list is full
addWatchIndicator(watched, id) ==
    IF (\E i \in 1..Len(watched) : watched[i] = id) \/ Len(watched) >= WatchLimit
    THEN watched ELSE Append(watched, id)

\* removeWatchIndicator(id)
removeWatchIndicator(watched, id) == SelectSeq(watched, LAMBDA w : w # id)

\* a handler that stores the ids whatever the list holds
OnFredAlways(has, inds, watched) ==
    setWatchedIndicators(Slice([i \in 1..Len(inds) |-> SortIndicators(inds)[i].id], FredSlice))

\* the watch list after a fred_search_results event
OnFredSearchResults(has, inds, watched) ==
    IF has /\ Len(inds) > 0
    THEN LET sorted == SortIndicators(inds)
             ids == [i \in 1..Len(sorted) |-> sorted[i].id]
         IN  setWatchedIndicators(Slice(ids, FredSlice))
    ELSE watched

(***************************************************************************)
(* Chat store and the messages sendMessage writes                          *)
(***************************************************************************)
NoSession == "null"
Undefined == "undefined"
SessionIds == {"S1", "S2"}

ERR == <<"[", "E", "R", "R", "]", " ">>
INTERRUPTED == <<"CONNECTION_INTERRUPTED">>
NL == <<"\n">>

initialMessage ==
    [id |-> 0, role |-> "system", type |-> "text", content |-> <<"WELCOME">>]

\* a store that puts a new message in front of the list
addMessageFirst(msgs, m) == <<m>> \o msgs

addMessage(msgs, m) == Append(msgs, m)

\* an addChip that appends whatever it is given
addChipAlways(cs, chip) == Append(cs, chip)

\* addChip: a chip whose id is already there is not added again
addChip(cs, chip) ==
    IF \E i \in 1..Len(cs) : cs[i].id = chip.id THEN cs ELSE Append(cs, chip)

appendLog(ls, line) == Append(ls, line)

RECURSIVE JoinMentions(_)
\* chips.map(c => BQ + c.id + BQ).join(' ')
JoinMentions(cs) ==
    IF cs = <<>> THEN <<>>
    ELSE IF Len(cs) = 1 THEN <<BQ, cs[1].id, BQ>>
    ELSE <<BQ, cs[1].id, BQ>> \o SP \o JoinMentions(Tail(cs))

displayContent(cs, text) ==
    IF Len(cs) > 0 THEN Trim(JoinMentions(cs) \o SP \o text) ELSE text

\* a token handler that forgets the content so far
TokenUpdateOverwrite(msgs, id, fragment) ==
    [i \in 1..Len(msgs) |->
        IF msgs[i].id # id THEN msgs[i]
        ELSE [msgs[i] EXCEPT !.content = TokenContent(<<>>, fragment)]]

\* a token handler that writes to every assistant message
TokenUpdateAll(msgs, id, fragment) ==
    [i \in 1..Len(msgs) |->
        IF msgs[i].role # "assistant" THEN msgs[i]
        ELSE [msgs[i] EXCEPT !.content = TokenContent(msgs[i].content, fragment)]]

\* case 'token': the message with the streaming id gets the cleaned text
TokenUpdate(msgs, id, fragment) ==
    [i \in 1..Len(msgs) |->
        IF msgs[i].id # id THEN msgs[i]
        ELSE [msgs[i] EXCEPT !.content = TokenContent(msgs[i].content, fragment)]]

\* case 'error': "[ERR] " + (event.message || 'CONNECTION_INTERRUPTED')
ErrorUpdate(msgs, id, hasMessage, message) ==
    [i \in 1..Len(msgs) |->
        IF msgs[i].id # id THEN msgs[i]
        ELSE [msgs[i] EXCEPT
                !.type = "error",
                !.content = ERR \o (IF hasMessage /\ message # <<>>
                                    THEN message ELSE INTERRUPTED)]]

\* case 'done', first part: the sessionId the closure captured decides
AdoptSessionId(closureSessionId, eventSessionId, current) ==
    IF eventSessionId # Undefined /\ closureSessionId = NoSession
    THEN eventSessionId ELSE current

\* a done handler that stores the logs field whatever it holds
AdoptLogsAlways(hasLogs, eventLogs, current) == eventLogs

\* case 'done', second part: if (event.logs?.length) setLogs(event.logs)
AdoptLogs(hasLogs, eventLogs, current) ==
    IF hasLogs /\ Len(eventLogs) > 0 THEN eventLogs ELSE current

\* a cancellation that also removes the message before the streaming one
CatchAbortWithUser(msgs, id) == SelectSeq(msgs, LAMBDA m : m.id # id /\ m.id # id - 1)

\* catch, AbortError branch: the streaming message is filtered out
CatchAbort(msgs, id) == SelectSeq(msgs, LAMBDA m : m.id # id)

\* the catch treating every error as a cancellation
CatchErrorAsAbort(msgs, id, errMsg) == CatchAbort(msgs, id)

\* catch, any other error: the streaming message becomes the error message
CatchError(msgs, id, errMsg) ==
    [i \in 1..Len(msgs) |->
        IF msgs[i].id # id THEN msgs[i]
        ELSE [msgs[i] EXCEPT
                !.type = "error",
                !.content = ERR \o INTERRUPTED \o NL \o errMsg]]

(***************************************************************************)
(* The events a stream can carry                                           *)
(***************************************************************************)
TokenFragments == {HELLO, SP}

\* (event.result || '').substring(0, 100)
PreviewLength == 100

IdAt == <<"A", "B", "C", "D", "E", "F", "G", "H">>

ExampleIndicators ==
    << [id |-> "A", category |-> "risk"],
       [id |-> "B", category |-> "sector"],
       [id |-> "C", category |-> "none"] >>

TokenEvents == {[type |-> "token", content |-> f] : f \in TokenFragments}
ToolCallEvents == {[type |-> "tool_call", tool |-> "search"]}
\* a result one character longer than the preview
LongResult == [i \in 1..(PreviewLength + 1) |-> IF i <= PreviewLength THEN "r" ELSE "s"]
ToolResultEvents ==
    {[type |-> "tool_result", tool |-> "search", result |-> r] : r \in {<<"o", "k">>, LongResult}}
DoneEvents ==
    {[type |-> "done", sessionId |-> s, hasLogs |-> FALSE, logs |-> <<>>] :
        s \in {Undefined} \cup SessionIds}
    \cup {[type |-> "done", sessionId |-> Undefined, hasLogs |-> TRUE, logs |-> l] :
            l \in {<<>>, <<<<"srv">>>>}}
ErrorEvents ==
    {[type |-> "error", hasMessage |-> FALSE, message |-> <<>>],
     [type |-> "error", hasMessage |-> TRUE, message |-> <<>>],
     [type |-> "error", hasMessage |-> TRUE, message |-> <<"boom">>]}
FredEvents ==
    {[type |-> "fred_search_results", hasIndicators |-> FALSE, indicators |-> <<>>],
     [type |-> "fred_search_results", hasIndicators |-> TRUE, indicators |-> <<>>],
     [type |-> "fred_search_results", hasIndicators |-> TRUE, indicators |-> ExampleIndicators]}

SSEEvents ==
    TokenEvents \cup ToolCallEvents \cup ToolResultEvents \cup DoneEvents
        \cup ErrorEvents \cup FredEvents

ToolCallLine(e) == <<"call", e.tool>>
\* the log line of a tool result carrying the whole result
ToolResultLineWhole(e) == <<"result", e.tool>> \o e.result \o <<"...">>

ToolResultLine(e) == <<"result", e.tool>> \o Slice(e.result, PreviewLength) \o <<"...">>

(***************************************************************************)
(* useChat: sendMessage, stopMessage and api.sendMessageStream             *)
(***************************************************************************)
Texts == {<<>>, SP, <<"h", "i">>}
ChipPool == {[id |-> "GDP", type |-> "indicator"]}

IdleSend ==
    [n |-> 0, pc |-> "idle", userMsgId |-> 0, assistantMsgId |-> 0,
     sessionId |-> NoSession, tokens |-> 0, terminal |-> FALSE,
     stopPhase |-> "none", stopTokens |-> 0, stopTerminal |-> FALSE,
     outcome |-> "none", failure |-> "none",
     types |-> <<>>, fragments |-> <<>>]

PipeInit ==
    /\ messages = <<initialMessage>>
    /\ isLoading = FALSE
    /\ sessionId = NoSession
    /\ logs = <<>>
    /\ chips = <<>>
    /\ abortControllerRef = [set |-> FALSE, aborted |-> FALSE]
    /\ send = IdleSend
    /\ doneIds = <<>>
    /\ nextId = 1
    /\ work = 0

\* a send that keeps the controller the ref already holds
ReuseController(ref) == [ref EXCEPT !.set = TRUE]

\* const controller = new AbortController(); abortControllerRef.current = controller
NewController(ref) == [set |-> TRUE, aborted |-> FALSE]

\* a chip dropped on the chat area
AddChip(chip) ==
    /\ work < MaxWork
    /\ work' = work + 1
    /\ chips' = addChip(chips, chip)
    /\ UNCHANGED <<messages, isLoading, sessionId, logs, watchedIndicators,
                   abortControllerRef, send, doneIds, nextId, evVars, accVars, sseVars, appVars>>

\* sendMessage up to the call of api.sendMessageStream. isLoading, sessionId
\* and chips are the values of the render the callback was created in; React
\* re-renders the component before the next user event is handled, so they
\* are the store's values when the call is made.
SendMessage(text) ==
    /\ work < MaxWork
    /\ ~((Trim(text) = <<>> /\ Len(chips) = 0) \/ isLoading)
    /\ LET userMsg == [id |-> nextId, role |-> "user", type |-> "text",
                       content |-> displayContent(chips, text)]
           assistantMsg == [id |-> nextId + 1, role |-> "assistant",
                            type |-> "text", content |-> <<>>]
       IN  messages' = addMessage(addMessage(messages, userMsg), assistantMsg)
    /\ isLoading' = TRUE
    /\ chips' = <<>>
    /\ abortControllerRef' = NewController(abortControllerRef)
    /\ send' = [IdleSend EXCEPT !.n = send.n + 1, !.pc = "fetch",
                                !.userMsgId = nextId, !.assistantMsgId = nextId + 1,
                                !.sessionId = sessionId]
    /\ doneIds' = <<>>
    /\ nextId' = nextId + 2
    /\ work' = work + 1
    /\ UNCHANGED <<sessionId, logs, watchedIndicators, evVars, accVars, sseVars, appVars>>

InFlight == send.pc \in {"fetch", "read"}

\* a signal that is never seen as aborted
NeverAborted == FALSE

\* the signal handed to api.sendMessageStream is the signal of the controller
\* the ref holds: one send is in flight at a time and each send stores its
\* own new controller in the ref
Aborted == abortControllerRef.aborted

\* stopMessage: abortControllerRef.current?.abort()
StopMessage ==
    /\ abortControllerRef' =
         IF abortControllerRef.set THEN [abortControllerRef EXCEPT !.aborted = TRUE]
         ELSE abortControllerRef
    /\ send' = IF InFlight /\ ~Aborted
               THEN [send EXCEPT !.stopPhase = send.pc,
                                 !.stopTokens = send.tokens,
                                 !.stopTerminal = send.terminal]
               ELSE send
    /\ UNCHANGED <<chatVars, watchedIndicators, doneIds, nextId, work,
                   evVars, accVars, sseVars, appVars>>

\* the end of the call without the finally block: isLoading keeps its value
SettleWithoutFinally(outcome, failure) ==
    /\ isLoading' = isLoading
    /\ send' = [send EXCEPT !.pc = "settled", !.outcome = outcome, !.failure = failure]
    /\ UNCHANGED <<sessionId, logs, chips, watchedIndicators, abortControllerRef,
                   doneIds, nextId, work, evVars, accVars, sseVars, appVars>>

\* finally { setLoading(false) } and the end of the call
Settle(outcome, failure) ==
    /\ isLoading' = FALSE
    /\ send' = [send EXCEPT !.pc = "settled", !.outcome = outcome, !.failure = failure]
    /\ UNCHANGED <<sessionId, logs, chips, watchedIndicators, abortControllerRef,
                   doneIds, nextId, work, evVars, accVars, sseVars, appVars>>

\* an error text that says nothing about the failure
ErrorTextUnknown(failure) == <<"Unknown error">>

\* the error text of each way the transport fails
ErrorText(failure) ==
    CASE failure = "network" -> <<"Failed to fetch">>
      [] failure = "status" -> <<"[500] ", "detail">>
      [] failure = "nobody" -> <<"No readable stream">>
      [] failure = "read" -> <<"network error">>

\* fetch rejects with AbortError: the signal was aborted while it was pending
FetchAborted ==
    /\ send.pc = "fetch"
    /\ Aborted
    /\ messages' = CatchAbort(messages, send.assistantMsgId)
    /\ Settle("aborted", "none")

\* fetch rejects (network), the status is not 2xx, or the response has no body
FetchFailed(failure) ==
    /\ send.pc = "fetch"
    /\ ~Aborted
    /\ messages' = CatchError(messages, send.assistantMsgId, ErrorText(failure))
    /\ Settle("failed", failure)

\* the response is ok and has a body: the read loop starts
FetchOk ==
    /\ send.pc = "fetch"
    /\ ~Aborted
    /\ send' = [send EXCEPT !.pc = "read"]
    /\ UNCHANGED <<chatVars, watchedIndicators, abortControllerRef, doneIds,
                   nextId, work, evVars, accVars, sseVars, appVars>>

\* reader.read() yields a data line and onEvent handles its event
ReadEvent(e) ==
    /\ send.pc = "read"
    /\ ~Aborted
    /\ work < MaxWork
    /\ messages' =
         IF e.type = "token"
         THEN TokenUpdate(messages, send.assistantMsgId, e.content)
         ELSE IF e.type = "error"
         THEN ErrorUpdate(messages, send.assistantMsgId, e.hasMessage, e.message)
         ELSE messages
    /\ logs' =
         IF e.type = "tool_call" THEN appendLog(logs, ToolCallLine(e))
         ELSE IF e.type = "tool_result" THEN appendLog(logs, ToolResultLine(e))
         ELSE IF e.type = "done" THEN AdoptLogs(e.hasLogs, e.logs, logs)
         ELSE logs
    /\ sessionId' =
         IF e.type = "done" THEN AdoptSessionId(send.sessionId, e.sessionId, sessionId)
         ELSE sessionId
    /\ watchedIndicators' =
         IF e.type = "fred_search_results"
         THEN OnFredSearchResults(e.hasIndicators, e.indicators, watchedIndicators)
         ELSE watchedIndicators
    /\ send' = [send EXCEPT !.tokens = IF e.type = "token" THEN @ + 1 ELSE @,
                            !.terminal = @ \/ e.type \in {"done", "error"},
                            !.types = Append(@, e.type),
                            !.fragments = IF e.type = "token"
                                          THEN Append(@, e.content) ELSE @]
    /\ doneIds' = IF e.type = "done" /\ e.sessionId # Undefined
                  THEN Append(doneIds, e.sessionId) ELSE doneIds
    /\ work' = work + 1
    /\ UNCHANGED <<isLoading, chips, abortControllerRef, nextId, evVars, accVars, sseVars, appVars>>

\* reader.read() yields done: the loop breaks and sendMessageStream returns
ReadClosed ==
    /\ send.pc = "read"
    /\ ~Aborted
    /\ UNCHANGED messages
    /\ Settle("returned", "none")

\* reader.read() rejects with an error that is not an AbortError
ReadFailed ==
    /\ send.pc = "read"
    /\ ~Aborted
    /\ messages' = CatchError(messages, send.assistantMsgId, ErrorText("read"))
    /\ Settle("failed", "read")

\* the signal was aborted during the read loop: the pending read rejects with
\* AbortError, which sendMessageStream swallows, or reader.cancel() makes it
\* yield done; either way sendMessageStream returns and nothing is caught
ReadAborted ==
    /\ send.pc = "read"
    /\ Aborted
    /\ UNCHANGED messages
    /\ Settle("returned", "none")

(***************************************************************************)
(* api.sendMessageStream: the read loop that cuts the body into lines      *)
(***************************************************************************)
LF == "\n"
\* line.startsWith('data: ')
MARKER == <<"d", "a", "t", "a", ":", " ">>

\* JSON texts: an object is written as an opening brace, one atom that
\* stands for its "type" member, and a closing brace
DONE_JSON == <<"{", "done", "}">>
TOKEN_JSON == <<"{", "token", "}">>
\* {not valid json
BAD_JSON == <<"{", "not">>

\* JSON.parse on the texts above: anything that is not a closed object throws
JSONParse(text) ==
    IF Len(text) = 3 /\ text[1] = "{" /\ text[3] = "}" /\ text[2] \in {"done", "token"}
    THEN [ok |-> TRUE, value |-> [type |-> text[2]]]
    ELSE [ok |-> FALSE, value |-> [type |-> "SyntaxError"]]

\* buffer.split('\n'): the pieces between newlines, at least one
RECURSIVE Split(_)
Split(s) ==
    LET p == FindFrom(s, 1, <<LF>>)
    IN  IF p = 0 THEN <<s>>
        ELSE <<SubSeq(s, 1, p - 1)>> \o Split(SubSeq(s, p + 1, Len(s)))

\* lines.pop() || '': the last piece is carried over to the next chunk
CarryDropped(lines) == <<>>

Carry(lines) == lines[Len(lines)]

\* everything but the popped last piece
Complete(lines) == SubSeq(lines, 1, Len(lines) - 1)

\* the loop body for one complete line with a JSON.parse failure that is
\* not caught
OnLineUncaught(line) ==
    IF MatchAt(line, 1, MARKER)
    THEN LET r == JSONParse(SubSeq(line, Len(MARKER) + 1, Len(line)))
         IN  IF r.ok THEN [events |-> <<r.value>>, threw |-> FALSE]
             ELSE [events |-> <<>>, threw |-> TRUE]
    ELSE [events |-> <<>>, threw |-> FALSE]

\* the loop body for one complete line: a line with the marker is parsed and
\* handed to onEvent inside try/catch, any other line is skipped
OnLine(line) ==
    IF MatchAt(line, 1, MARKER)
    THEN LET r == JSONParse(SubSeq(line, Len(MARKER) + 1, Len(line)))
         IN  IF r.ok THEN [events |-> <<r.value>>, threw |-> FALSE]
             ELSE [events |-> <<>>, threw |-> FALSE]
    ELSE [events |-> <<>>, threw |-> FALSE]

\* for (const line of lines): the events dispatched, and whether the loop
\* was left by an exception
RECURSIVE OnLines(_)
OnLines(lines) ==
    IF lines = <<>> THEN [events |-> <<>>, threw |-> FALSE]
    ELSE LET r == OnLine(Head(lines))
         IN  IF r.threw THEN r
             ELSE LET rest == OnLines(Tail(lines))
                  IN  [events |-> r.events \o rest.events, threw |-> rest.threw]

\* the response body: the lines joined by newlines
RECURSIVE Join(_)
Join(lines) ==
    IF lines = <<>> THEN <<>>
    ELSE IF Len(lines) = 1 THEN Head(lines)
    ELSE Head(lines) \o <<LF>> \o Join(Tail(lines))

Body == Join(sseLines) \o (IF sseTerminated THEN <<LF>> ELSE <<>>)

SseIdle ==
    /\ sseLines = <<>>
    /\ sseTerminated = FALSE
    /\ ssePos = 0
    /\ buffer = <<>>
    /\ sseDispatched = <<>>
    /\ sseStatus = "reading"

AccIdle ==
    /\ accMode = "fence"
    /\ accUsed = 0
    /\ accFeed = <<>>
    /\ accLast = <<>>
    /\ accTokens = FALSE
    /\ accPrev = <<>>
    /\ accContent = <<>>

EvIdle ==
    /\ evIndicators = <<>>
    /\ evFired = FALSE

(***************************************************************************)
(* chatStore reset / restoreSession / removeChip, the session history      *)
(* store and the portfolio store                                           *)
(***************************************************************************)
\* removeChip: chips.filter(c => c.id !== id)
removeChip(cs, id) == SelectSeq(cs, LAMBDA c : c.id # id)

\* clearChips: chips: []
clearChips == <<>>

\* messages.some(m => m.role === MessageRole.USER)
hasUserMsg(msgs) == \E i \in 1..Len(msgs) : msgs[i].role = "user"

EmptyId == ""
TitleLength == 40
HistoryLimit == 20

\* getTitle: the first user message cut to 40 characters, or 'Empty session'
getTitle(msgs) ==
    LET users == SelectSeq(msgs, LAMBDA m : m.role = "user")
        cut == IF users = <<>> THEN <<>> ELSE Slice(Head(users).content, TitleLength)
    IN  IF cut = <<>> THEN <<"Empty session">> ELSE cut

\* a history that puts every saved session in front, present or not
saveSessionPrepend(ss, id, msgs, now) ==
    IF id \in {EmptyId, NoSession} \/ ~hasUserMsg(msgs) THEN ss
    ELSE Slice(<<[id |-> id, title |-> getTitle(msgs), messages |-> msgs,
                  createdAt |-> now, updatedAt |-> now]>> \o ss, HistoryLimit)

\* saveSession: nothing for a falsy id or a list without a user message; an
\* entry with the id is updated where it stands; a new entry goes in front
\* and the list is cut to 20
saveSession(ss, id, msgs, now) ==
    IF id \in {EmptyId, NoSession} THEN ss
    ELSE IF ~hasUserMsg(msgs) THEN ss
    ELSE IF \E i \in 1..Len(ss) : ss[i].id = id
    THEN [i \in 1..Len(ss) |->
            IF ss[i].id = id
            THEN [ss[i] EXCEPT !.messages = msgs, !.title = getTitle(msgs),
                               !.updatedAt = now]
            ELSE ss[i]]
    ELSE Slice(<<[id |-> id, title |-> getTitle(msgs), messages |-> msgs,
                  createdAt |-> now, updatedAt |-> now]>> \o ss, HistoryLimit)

\* removeSession: sessions.filter(s => s.id !== id)
removeSession(ss, id) == SelectSeq(ss, LAMBDA s : s.id # id)

NoPortfolio == "null"

\* String.prototype.toUpperCase() on the letters the tickers are written in
toUpperCase(s) ==
    [i \in 1..Len(s) |-> IF s[i] = "a" THEN "A" ELSE IF s[i] = "b" THEN "B" ELSE s[i]]

\* the set() of addHolding without the look-up of the ticker
addHoldingAppend(hs, id, quantity, recordId) ==
    Append(hs, [id |-> recordId, ticker |-> id, quantity |-> quantity])

\* the set() of addHolding, run when the server has answered: a holding with
\* the ticker gets the quantity, otherwise a new holding is appended
addHoldingSet(hs, id, quantity, recordId) ==
    IF \E i \in 1..Len(hs) : hs[i].ticker = id
    THEN [i \in 1..Len(hs) |->
            IF hs[i].ticker = id THEN [hs[i] EXCEPT !.quantity = quantity] ELSE hs[i]]
    ELSE Append(hs, [id |-> recordId, ticker |-> id, quantity |-> quantity])

\* the set() of removeHolding
removeHoldingSet(hs, id) == SelectSeq(hs, LAMBDA h : h.ticker # id)

\* the set() of updateQuantity
updateQuantitySet(hs, id, quantity) ==
    [i \in 1..Len(hs) |->
        IF hs[i].ticker = id THEN [hs[i] EXCEPT !.quantity = quantity] ELSE hs[i]]

NoCall == [op |-> "none", id |-> 0, arg |-> "", blank |-> FALSE, found |-> FALSE]

UiIdle ==
    /\ render = [isLoading |-> FALSE, sessionId |-> NoSession, chips |-> <<>>]
    /\ streams = <<>>
    /\ signalOwner = 0
    /\ lastCall = NoCall

HistIdle ==
    /\ sessions = <<>>
    /\ clock = 0

PortIdle ==
    /\ portfolioId = NoPortfolio
    /\ holdings = <<>>
    /\ isSyncing = FALSE
    /\ pending = {}
    /\ serverHoldings = <<>>

AppIdle == UiIdle /\ HistIdle /\ PortIdle

Init ==
    /\ PipeInit
    /\ watchedIndicators = <<>>
    /\ EvIdle
    /\ AppIdle
    /\ AccIdle
    /\ SseIdle

Next ==
    \/ \E chip \in ChipPool : AddChip(chip)
    \/ \E text \in Texts : SendMessage(text)
    \/ StopMessage
    \/ FetchAborted
    \/ \E failure \in {"network", "status", "nobody"} : FetchFailed(failure)
    \/ FetchOk
    \/ \E e \in SSEEvents : ReadEvent(e)
    \/ ReadClosed
    \/ ReadFailed
    \/ ReadAborted

Spec == Init /\ [][Next]_vars

\* the transport answers: the fetch resolves or rejects, and the read loop
\* ends (the stream closes, fails, or the abort is observed)
Transport ==
    \/ FetchAborted
    \/ \E failure \in {"network", "status", "nobody"} : FetchFailed(failure)
    \/ FetchOk
    \/ ReadClosed
    \/ ReadFailed
    \/ ReadAborted

\* the pipeline under the assumption that no stream stays open for ever
SpecLive == Init /\ [][Next]_vars /\ WF_vars(Transport)

(***************************************************************************)
(* A fred_search_results event on its own: the indicator list is built up  *)
(* one indicator at a time and then dispatched once.                       *)
(***************************************************************************)
WatchInit ==
    /\ PipeInit
    /\ watchedIndicators \in {<<>>, <<"OLD">>}
    /\ EvIdle
    /\ AppIdle
    /\ AccIdle
    /\ SseIdle

EvAppend(category) ==
    /\ ~evFired
    /\ Len(evIndicators) < MaxIndicators
    /\ evIndicators' =
         Append(evIndicators, [id |-> IdAt[Len(evIndicators) + 1], category |-> category])
    /\ UNCHANGED <<chatVars, watchedIndicators, hookVars, evFired, accVars, sseVars, appVars>>

EvDispatch ==
    /\ ~evFired
    /\ evFired' = TRUE
    /\ watchedIndicators' = OnFredSearchResults(TRUE, evIndicators, watchedIndicators)
    /\ UNCHANGED <<chatVars, hookVars, evIndicators, accVars, sseVars, appVars>>

WatchNext ==
    \/ \E category \in Categories : EvAppend(category)
    \/ EvDispatch

SpecWatch == WatchInit /\ [][WatchNext]_vars

(***************************************************************************)
(* The token handler on its own: a stream of fragments cut out of a        *)
(* sequence of pieces, applied one by one to an initially empty content.   *)
(***************************************************************************)
Pieces(mode) ==
    IF mode = "fence" THEN {CLOSE, JSON, SP, X}
    ELSE IF mode = "blocks" THEN {OPEN, CLOSE, X}
    ELSE {HELLO, SP, WORLD}

\* every fragment made of exactly k pieces
FragmentsOf(mode, k) == {Concat(ps) : ps \in [1..k -> Pieces(mode)]}

AccInit ==
    /\ PipeInit
    /\ watchedIndicators = <<>>
    /\ EvIdle
    /\ AppIdle
    /\ SseIdle
    /\ accMode \in {"fence", "blocks", "prose"}
    /\ accUsed = 0
    /\ accFeed = <<>>
    /\ accLast = <<>>
    /\ accTokens = FALSE
    /\ accPrev = <<>>
    /\ accContent = <<>>

\* what a fragment cut from k pieces takes from the budget (the empty
\* fragment counts as one, so that a run feeds finitely many of them)
Cost(k) == IF k = 0 THEN 1 ELSE k

\* case 'token' applied to the streaming message
AccToken(k, fragment) ==
    /\ accUsed + Cost(k) <= MaxPieces
    /\ accUsed' = accUsed + Cost(k)
    /\ accFeed' = IF accMode = "prose" THEN Append(accFeed, fragment) ELSE accFeed
    /\ accLast' = fragment
    /\ accTokens' = TRUE
    /\ accPrev' = accContent
    /\ accContent' = TokenContent(accContent, fragment)
    /\ UNCHANGED <<accMode, chatVars, watchedIndicators, hookVars, evVars, sseVars, appVars>>

AccNext ==
    \E k \in 0..(MaxPieces - accUsed) : \E fragment \in FragmentsOf(accMode, k) :
        AccToken(k, fragment)

SpecAcc == AccInit /\ [][AccNext]_vars

(***************************************************************************)
(* The read loop on its own: a body of a few lines arrives in chunks of    *)
(* any size.                                                               *)
(***************************************************************************)
\* the lines a body is made of
LinePool ==
    { MARKER \o DONE_JSON, MARKER \o TOKEN_JSON, MARKER \o BAD_JSON,
      <<"d", "a", "t", "a", ":">> \o DONE_JSON, <<":">>, <<>> }

SseInit ==
    /\ PipeInit
    /\ watchedIndicators = <<>>
    /\ EvIdle
    /\ AppIdle
    /\ AccIdle
    /\ \E n \in 1..MaxLines : sseLines \in [1..n -> LinePool]
    /\ sseTerminated \in BOOLEAN
    /\ ssePos = 0
    /\ buffer = <<>>
    /\ sseDispatched = <<>>
    /\ sseStatus = "reading"

\* reader.read() yields the next n characters of the body
SseRead(n) ==
    /\ sseStatus = "reading"
    /\ ssePos + n <= Len(Body)
    /\ LET lines == Split(buffer \o SubSeq(Body, ssePos + 1, ssePos + n))
           r == OnLines(Complete(lines))
       IN  /\ buffer' = Carry(lines)
           /\ sseDispatched' = sseDispatched \o r.events
           /\ sseStatus' = IF r.threw THEN "failed" ELSE "reading"
    /\ ssePos' = ssePos + n
    /\ UNCHANGED <<sseLines, sseTerminated, chatVars, watchedIndicators, hookVars,
                   evVars, accVars, appVars>>

\* reader.read() yields done after the whole body: the loop breaks
SseClose ==
    /\ sseStatus = "reading"
    /\ ssePos = Len(Body)
    /\ sseStatus' = "returned"
    /\ UNCHANGED <<sseLines, sseTerminated, ssePos, buffer, sseDispatched, chatVars,
                   watchedIndicators, hookVars, evVars, accVars, appVars>>

SseNext ==
    \/ \E n \in 1..(Len(Body) - ssePos) : SseRead(n)
    \/ SseClose

SpecSSE == SseInit /\ [][SseNext]_vars

(***************************************************************************)
(* The watch list on its own: the store's three operations and the         *)
(* fred_search_results handler, in any order.                              *)
(***************************************************************************)
WatchIds == {"A", "B", "C", "D", "E", "F"}

\* the id lists handed to setWatchedIndicators: every list of at most
\* MaxList ids, and two lists longer than the store keeps
IdLists ==
    UNION {[1..n -> WatchIds] : n \in 0..MaxList}
        \cup {<<"A", "B", "C", "D", "E", "F">>, <<"A", "A", "B", "C", "D", "E", "F">>}

\* the indicator lists of the events: the id lists with each way of giving
\* the first two indicators the category sector or risk
IndicatorLists ==
    {[i \in 1..Len(ids) |->
        [id |-> ids[i], category |-> IF i = 1 THEN c[1] ELSE IF i = 2 THEN c[2] ELSE "macro"]] :
        ids \in IdLists, c \in [1..2 -> {"sector", "risk"}]}

ListInit ==
    /\ PipeInit
    /\ watchedIndicators = <<>>
    /\ EvIdle
    /\ AppIdle
    /\ AccIdle
    /\ SseIdle

ListFrame == UNCHANGED <<chatVars, hookVars, evVars, accVars, sseVars, appVars>>

AddWatch(id) ==
    /\ watchedIndicators' = addWatchIndicator(watchedIndicators, id)
    /\ ListFrame

RemoveWatch(id) ==
    /\ watchedIndicators' = removeWatchIndicator(watchedIndicators, id)
    /\ ListFrame

SetWatched(ids) ==
    /\ watchedIndicators' = setWatchedIndicators(ids)
    /\ ListFrame

FredResults(inds) ==
    /\ watchedIndicators' = OnFredSearchResults(TRUE, inds, watchedIndicators)
    /\ ListFrame

ListNext ==
    \/ \E id \in WatchIds : AddWatch(id)
    \/ \E id \in WatchIds : RemoveWatch(id)
    \/ \E ids \in IdLists : SetWatched(ids)
    \/ \E inds \in IndicatorLists : FredResults(inds)

SpecList == ListInit /\ [][ListNext]_vars

(***************************************************************************)
(* The chat around the hook: renders, chip drops, New Chat, Restore        *)
(* Session, sign-out, and the calls of sendMessage whose streams are open  *)
(* side by side. sendMessage reads isLoading, sessionId and chips of the   *)
(* render its callback was created in; a click handler runs after React    *)
(* has rendered the store it reads.                                        *)
(***************************************************************************)
\* sendMessage calls that pass the guard, stream events and stream failures
\* in one run
MaxCalls == 3

\* the events a stream delivers here: a token, an error, and done with a session id
ChatEvents ==
    {e \in SSEEvents :
        \/ e.type = "token" /\ e.content = HELLO
        \/ e.type = "error" /\ ~e.hasMessage
        \/ e.type = "done" /\ e.sessionId = "S1"}

\* what useChatStore() hands to the components in a render
Snapshot == [isLoading |-> isLoading, sessionId |-> sessionId, chips |-> chips]

Rendered == render = Snapshot

ChatFrame == UNCHANGED <<send, doneIds, evVars, accVars, sseVars, clock, portVars>>

ChatInit ==
    /\ PipeInit
    /\ watchedIndicators \in {<<>>, <<"OLD">>}
    /\ EvIdle
    /\ AppIdle
    /\ AccIdle
    /\ SseIdle

\* React renders the components with the store's values
Render ==
    /\ ~Rendered
    /\ render' = Snapshot
    /\ UNCHANGED <<chatVars, watchedIndicators, abortControllerRef, nextId, work,
                   streams, signalOwner, lastCall, sessions>>
    /\ ChatFrame

\* handleDrop: addChip with the dropped chip
DropChip(chip) ==
    /\ Rendered
    /\ chips' = addChip(chips, chip)
    /\ lastCall' = [NoCall EXCEPT !.op = "addChip", !.arg = chip.id,
                                  !.found = \E i \in 1..Len(chips) : chips[i].id = chip.id]
    /\ UNCHANGED <<messages, isLoading, sessionId, logs, watchedIndicators,
                   abortControllerRef, nextId, work, render, streams, signalOwner,
                   sessions>>
    /\ ChatFrame

\* a sendMessage without the blank half of its guard
SendGuardLoadingOnly(text, closure) == closure.isLoading

\* if ((!text.trim() && chips.length === 0) || isLoading) return;
SendGuard(text, closure) ==
    (Trim(text) = <<>> /\ Len(closure.chips) = 0) \/ closure.isLoading

\* a call of the sendMessage callback of the last render, up to the call of
\* api.sendMessageStream
SendCall(text) ==
    /\ lastCall' = [NoCall EXCEPT !.op = "sendMessage",
                                  !.blank = (Trim(text) = <<>> /\ Len(render.chips) = 0),
                                  !.found = isLoading]
    /\ IF SendGuard(text, render)
       THEN UNCHANGED <<chatVars, abortControllerRef, nextId, work, streams, signalOwner>>
       ELSE /\ work < MaxCalls
            /\ work' = work + 1
            /\ LET userMsg == [id |-> nextId, role |-> "user", type |-> "text",
                               content |-> displayContent(render.chips, text)]
                   assistantMsg == [id |-> nextId + 1, role |-> "assistant",
                                    type |-> "text", content |-> <<>>]
               IN  messages' = addMessage(addMessage(messages, userMsg), assistantMsg)
            /\ isLoading' = TRUE
            /\ chips' = clearChips
            /\ abortControllerRef' = NewController(abortControllerRef)
            /\ signalOwner' = nextId + 1
            /\ streams' = Append(streams, [id |-> nextId + 1, sessionId |-> render.sessionId])
            /\ nextId' = nextId + 2
            /\ UNCHANGED <<sessionId, logs>>
    /\ UNCHANGED <<watchedIndicators, render, sessions>>
    /\ ChatFrame

\* onEvent of the k-th open stream handles a token, error or done event
StreamEvent(k, e) ==
    /\ k \in 1..Len(streams)
    /\ work < MaxCalls
    /\ work' = work + 1
    /\ messages' =
         IF e.type = "token" THEN TokenUpdate(messages, streams[k].id, e.content)
         ELSE IF e.type = "error"
         THEN ErrorUpdate(messages, streams[k].id, e.hasMessage, e.message)
         ELSE messages
    /\ sessionId' =
         IF e.type = "done"
         THEN AdoptSessionId(streams[k].sessionId, e.sessionId, sessionId)
         ELSE sessionId
    /\ logs' = IF e.type = "done" THEN AdoptLogs(e.hasLogs, e.logs, logs) ELSE logs
    /\ lastCall' = [NoCall EXCEPT !.op = e.type, !.id = streams[k].id,
                                  !.found = \E i \in 1..Len(messages) :
                                                messages[i].id = streams[k].id]
    /\ UNCHANGED <<isLoading, chips, watchedIndicators, abortControllerRef, nextId,
                   render, streams, signalOwner, sessions>>
    /\ ChatFrame

RemoveAt(seq, k) == SubSeq(seq, 1, k - 1) \o SubSeq(seq, k + 1, Len(seq))

\* the k-th open stream ends and its call runs finally { setLoading(false) }
StreamClosed(k) ==
    /\ k \in 1..Len(streams)
    /\ isLoading' = FALSE
    /\ streams' = RemoveAt(streams, k)
    /\ lastCall' = [NoCall EXCEPT !.op = "closed", !.id = streams[k].id]
    /\ UNCHANGED <<messages, sessionId, logs, chips, watchedIndicators,
                   abortControllerRef, nextId, work, render, signalOwner, sessions>>
    /\ ChatFrame

\* the read of the k-th open stream rejects: the generic catch, then finally
StreamFailed(k) ==
    /\ k \in 1..Len(streams)
    /\ work < MaxCalls
    /\ work' = work + 1
    /\ messages' = CatchError(messages, streams[k].id, ErrorText("read"))
    /\ isLoading' = FALSE
    /\ streams' = RemoveAt(streams, k)
    /\ lastCall' = [NoCall EXCEPT !.op = "failed", !.id = streams[k].id]
    /\ UNCHANGED <<sessionId, logs, chips, watchedIndicators,
                   abortControllerRef, nextId, render, signalOwner, sessions>>
    /\ ChatFrame

\* a New Chat that does not look at isLoading
NewChatGuardNever(closureIsLoading) == FALSE

\* handleNewChat: if (isLoading) return;
NewChatGuard(closureIsLoading) == closureIsLoading

\* a click on New Chat: the session is saved, the chat store and the watch
\* list are reset
NewChat ==
    /\ Rendered
    /\ lastCall' = [NoCall EXCEPT !.op = "newChat", !.found = isLoading]
    /\ IF NewChatGuard(render.isLoading)
       THEN UNCHANGED <<chatVars, watchedIndicators, sessions>>
       ELSE /\ sessions' = IF sessionId # NoSession /\ hasUserMsg(messages)
                           THEN saveSession(sessions, sessionId, messages, clock)
                           ELSE sessions
            /\ messages' = <<initialMessage>>
            /\ isLoading' = FALSE
            /\ sessionId' = NoSession
            /\ logs' = <<>>
            /\ chips' = <<>>
            /\ watchedIndicators' = setWatchedIndicators(<<>>)
    /\ UNCHANGED <<abortControllerRef, nextId, work, render, streams, signalOwner>>
    /\ ChatFrame

\* handleRestoreSession: if (isLoading) return;
RestoreGuard(closureIsLoading) == closureIsLoading

\* a click on the k-th session of the history, which is not the current one
RestoreSession(k) ==
    /\ Rendered
    /\ k \in 1..Len(sessions)
    /\ sessions[k].id # sessionId
    /\ lastCall' = [NoCall EXCEPT !.op = "restore", !.found = isLoading]
    /\ IF RestoreGuard(render.isLoading)
       THEN UNCHANGED <<chatVars, sessions>>
       ELSE /\ sessions' = IF sessionId # NoSession /\ sessionId # sessions[k].id
                              /\ hasUserMsg(messages)
                           THEN saveSession(sessions, sessionId, messages, clock)
                           ELSE sessions
            /\ messages' = sessions[k].messages
            /\ sessionId' = sessions[k].id
            /\ isLoading' = FALSE
            /\ chips' = <<>>
            /\ logs' = <<>>
    /\ UNCHANGED <<watchedIndicators, abortControllerRef, nextId, work, render,
                   streams, signalOwner>>
    /\ ChatFrame

\* the user signs out: the effect of App resets the portfolio store and the
\* chat store and clears the session history
SignOut ==
    /\ portfolioId' = NoPortfolio
    /\ holdings' = <<>>
    /\ isSyncing' = FALSE
    /\ messages' = <<initialMessage>>
    /\ isLoading' = FALSE
    /\ sessionId' = NoSession
    /\ logs' = <<>>
    /\ chips' = <<>>
    /\ sessions' = <<>>
    /\ lastCall' = [NoCall EXCEPT !.op = "signOut"]
    /\ UNCHANGED <<watchedIndicators, hookVars, evVars, accVars, sseVars,
                   render, streams, signalOwner, clock, pending, serverHoldings>>

ChatNext ==
    \/ Render
    \/ \E chip \in ChipPool : DropChip(chip)
    \/ \E text \in Texts : SendCall(text)
    \/ \E k \in 1..Len(streams) : \E e \in ChatEvents : StreamEvent(k, e)
    \/ \E k \in 1..Len(streams) : StreamClosed(k)
    \/ \E k \in 1..Len(streams) : StreamFailed(k)
    \/ NewChat
    \/ \E k \in 1..Len(sessions) : RestoreSession(k)
    \/ SignOut

SpecChat == ChatInit /\ [][ChatNext]_vars

(***************************************************************************)
(* The session history store on its own: saveSession, removeSession and    *)
(* clear in any order, from a history the persist middleware brought back   *)
(***************************************************************************)
\* store calls in one run
MaxSaves == 2
\* session ids that are not in the history at the start
MaxFresh == 2

\* stands for a UUID
SId(n) == "S" \o ToString(n)

\* the message lists handed to saveSession: one without a user message and
\* two with one
Chats ==
    {<<initialMessage>>,
     <<initialMessage, [id |-> 1, role |-> "user", type |-> "text", content |-> <<"h", "i">>]>>,
     <<initialMessage, [id |-> 1, role |-> "user", type |-> "text", content |-> HELLO],
       [id |-> 2, role |-> "assistant", type |-> "text", content |-> WORLD]>>}

RECURSIVE Saved(_)
\* the history after n sessions were saved one after the other at time 0
Saved(n) ==
    IF n = 0 THEN <<>>
    ELSE saveSession(Saved(n - 1), SId(n),
                     <<initialMessage, [id |-> 1, role |-> "user", type |-> "text",
                                        content |-> <<"h", "i">>]>>, 0)

\* the ids handed to the store: falsy ones, the oldest and the newest of a
\* full history, and fresh ones
HistoryIds ==
    {EmptyId, NoSession, SId(1), SId(HistoryLimit)}
        \cup {SId(HistoryLimit + k) : k \in 1..MaxFresh}

HasSession(ss, id) == \E i \in 1..Len(ss) : ss[i].id = id

HistFrame ==
    UNCHANGED <<chatVars, watchedIndicators, abortControllerRef, send, doneIds, nextId,
                evVars, accVars, sseVars, render, streams, signalOwner, portVars>>

HistInit ==
    /\ PipeInit
    /\ watchedIndicators = <<>>
    /\ EvIdle
    /\ UiIdle
    /\ PortIdle
    /\ AccIdle
    /\ SseIdle
    /\ sessions \in {Saved(n) : n \in {0, HistoryLimit - 1, HistoryLimit}}
    /\ clock = 0

\* saveSession(id, msgs) at the next instant
HistSave(id, msgs) ==
    /\ work < MaxSaves
    /\ work' = work + 1
    /\ clock' = clock + 1
    /\ sessions' = saveSession(sessions, id, msgs, clock + 1)
    /\ lastCall' = [NoCall EXCEPT !.op = "saveSession", !.arg = id,
                                  !.found = HasSession(sessions, id),
                                  !.blank = ~hasUserMsg(msgs)]
    /\ HistFrame

\* removeSession(id)
HistRemove(id) ==
    /\ work < MaxSaves
    /\ work' = work + 1
    /\ sessions' = removeSession(sessions, id)
    /\ lastCall' = [NoCall EXCEPT !.op = "removeSession", !.arg = id,
                                  !.found = HasSession(sessions, id)]
    /\ UNCHANGED clock
    /\ HistFrame

\* clear()
HistClear ==
    /\ work < MaxSaves
    /\ work' = work + 1
    /\ sessions' = <<>>
    /\ lastCall' = [NoCall EXCEPT !.op = "clear"]
    /\ UNCHANGED clock
    /\ HistFrame

HistNext ==
    \/ \E id \in HistoryIds : \E msgs \in Chats : HistSave(id, msgs)
    \/ \E id \in HistoryIds : HistRemove(id)
    \/ HistClear

SpecHistory == HistInit /\ [][HistNext]_vars

(***************************************************************************)
(* The portfolio store on its own: fetchPortfolio, addHolding,             *)
(* removeHolding and updateQuantity, each split at its await, with the     *)
(* server responses arriving in any order, and the reset at sign-out       *)
(***************************************************************************)
\* store calls that await their response at the same time
MaxPending == 2

RawTickers == {<<"a">>, <<" ", "A">>, <<"B">>, <<" ">>}
Quantities == {-1, 0, 1, 2}

HasTicker(hs, id) == \E i \in 1..Len(hs) : hs[i].ticker = id

\* stands for the UUID the server gives the row of a ticker
RecordId(id) == <<"row">> \o id

\* the server keeps one row per ticker: upsertHolding writes the shares of
\* the row of the ticker, or adds the row
Upsert(rows, id, shares) ==
    IF \E i \in 1..Len(rows) : rows[i].ticker = id
    THEN [i \in 1..Len(rows) |->
            IF rows[i].ticker = id THEN [rows[i] EXCEPT !.shares = shares] ELSE rows[i]]
    ELSE Append(rows, [id |-> RecordId(id), ticker |-> id, shares |-> shares])

\* deleteHolding removes the row with the id
Delete(rows, rowId) == SelectSeq(rows, LAMBDA r : r.id # rowId)

\* fetchPortfolio: the rows of the server as holdings
FromRows(rows) ==
    [i \in 1..Len(rows) |->
        [id |-> rows[i].id, ticker |-> rows[i].ticker, quantity |-> rows[i].shares]]

PortFrame ==
    UNCHANGED <<chatVars, watchedIndicators, hookVars, evVars, accVars, sseVars,
                uiVars, histVars>>

PortInit ==
    /\ PipeInit
    /\ watchedIndicators = <<>>
    /\ EvIdle
    /\ AppIdle
    /\ AccIdle
    /\ SseIdle

Call(op, id, quantity) ==
    [op |-> op, ticker |-> id, quantity |-> quantity, isNew |-> ~HasTicker(holdings, id)]

\* fetchPortfolio up to its first await
FetchPortfolio ==
    /\ Cardinality(pending) < MaxPending
    /\ isSyncing' = TRUE
    /\ pending' = pending \cup {[op |-> "fetch", ticker |-> <<>>, quantity |-> 0,
                                 isNew |-> FALSE]}
    /\ UNCHANGED <<portfolioId, holdings, serverHoldings>>
    /\ PortFrame

\* addHolding up to its await
AddHolding(ticker, quantity) ==
    /\ Cardinality(pending) < MaxPending
    /\ portfolioId # NoPortfolio
    /\ LET id == Trim(toUpperCase(ticker))
       IN  /\ ~(id = <<>> \/ quantity <= 0)
           /\ pending' = pending \cup {Call("add", id, quantity)}
    /\ UNCHANGED <<portfolioId, holdings, isSyncing, serverHoldings>>
    /\ PortFrame

\* removeHolding up to its await
RemoveHolding(ticker) ==
    /\ Cardinality(pending) < MaxPending
    /\ portfolioId # NoPortfolio
    /\ HasTicker(holdings, toUpperCase(ticker))
    /\ pending' = pending \cup {Call("remove", toUpperCase(ticker), 0)}
    /\ UNCHANGED <<portfolioId, holdings, isSyncing, serverHoldings>>
    /\ PortFrame

\* updateQuantity up to its await
UpdateQuantity(ticker, quantity) ==
    /\ Cardinality(pending) < MaxPending
    /\ portfolioId # NoPortfolio
    /\ HasTicker(holdings, toUpperCase(ticker))
    /\ pending' = pending \cup {Call("update", toUpperCase(ticker), quantity)}
    /\ UNCHANGED <<portfolioId, holdings, isSyncing, serverHoldings>>
    /\ PortFrame

\* the server answers a call with a 2xx status: the rest of the call runs
ResponseOk(call) ==
    /\ call \in pending
    /\ pending' = pending \ {call}
    /\ CASE call.op = "fetch" ->
              /\ portfolioId' = "P1"
              /\ holdings' = FromRows(serverHoldings)
              /\ isSyncing' = FALSE
              /\ UNCHANGED serverHoldings
         [] call.op = "add" ->
              /\ serverHoldings' = Upsert(serverHoldings, call.ticker, call.quantity)
              /\ holdings' = addHoldingSet(holdings, call.ticker, call.quantity,
                                           RecordId(call.ticker))
              /\ UNCHANGED <<portfolioId, isSyncing>>
         [] call.op = "remove" ->
              /\ serverHoldings' = Delete(serverHoldings, RecordId(call.ticker))
              /\ holdings' = removeHoldingSet(holdings, call.ticker)
              /\ UNCHANGED <<portfolioId, isSyncing>>
         [] call.op = "update" ->
              /\ serverHoldings' = Upsert(serverHoldings, call.ticker, call.quantity)
              /\ holdings' = updateQuantitySet(holdings, call.ticker, call.quantity)
              /\ UNCHANGED <<portfolioId, isSyncing>>
    /\ PortFrame

\* the request of a call fails: api throws, fetchPortfolio catches it, the
\* other calls reject without touching the store
ResponseFailed(call) ==
    /\ call \in pending
    /\ pending' = pending \ {call}
    /\ isSyncing' = IF call.op = "fetch" THEN FALSE ELSE isSyncing
    /\ UNCHANGED <<portfolioId, holdings, serverHoldings>>
    /\ PortFrame

PortNext ==
    \/ FetchPortfolio
    \/ \E ticker \in RawTickers : \E quantity \in Quantities : AddHolding(ticker, quantity)
    \/ \E ticker \in RawTickers : RemoveHolding(ticker)
    \/ \E ticker \in RawTickers : \E quantity \in Quantities : UpdateQuantity(ticker, quantity)
    \/ \E call \in pending : ResponseOk(call)
    \/ \E call \in pending : ResponseFailed(call)
    \/ SignOut

SpecPortfolio == PortInit /\ [][PortNext]_vars

(***************************************************************************)
(* The chip list on its own: chips are dropped on the chat area and        *)
(* removed from the tray one by one, and New Chat empties the list         *)
(***************************************************************************)
\* number of different chip ids
MaxChipIds == 3

\* stands for a series id
CId(n) == "C" \o ToString(n)

ChipIds == {CId(n) : n \in 1..MaxChipIds}

\* the chips that are dropped: each id comes with two payloads
ChipDrops == {[id |-> id, type |-> t] : id \in ChipIds, t \in {"indicator", "series"}}

HasChip(cs, id) == \E i \in 1..Len(cs) : cs[i].id = id

\* onRemoveChip: removeChip with the id of a chip of the tray
RemoveChip(id) ==
    /\ Rendered
    /\ HasChip(chips, id)
    /\ chips' = removeChip(chips, id)
    /\ lastCall' = [NoCall EXCEPT !.op = "removeChip", !.arg = id, !.found = TRUE]
    /\ UNCHANGED <<messages, isLoading, sessionId, logs, watchedIndicators,
                   abortControllerRef, nextId, work, render, streams, signalOwner,
                   sessions>>
    /\ ChatFrame

ChipNext ==
    \/ Render
    \/ \E chip \in ChipDrops : DropChip(chip)
    \/ \E id \in ChipIds : RemoveChip(id)
    \/ NewChat

SpecChips == ChatInit /\ [][ChipNext]_vars

(***************************************************************************)
(* Properties of the token handler                                         *)
(***************************************************************************)
\* an opening delimiter followed, anywhere later, by a closing delimiter
\* (some opener has a closer behind it exactly when the first opener has)
HasCompleteFence(s) ==
    LET p == FindFrom(s, 1, OPEN)
    IN  p # 0 /\ FindFrom(s, p + Len(OPEN), CLOSE) # 0

\* no three backquotes in a row: neither an opening nor a closing delimiter
NoDelimiter(s) == \A i \in 1..Len(s) : ~MatchAt(s, i, CLOSE)

LastRaw == accPrev \o accLast

\* C4: the fragments Hello, blank, world applied in that order to an empty
\* content give the content "Hello world".
C4_HelloWorld ==
    accFeed = <<HELLO, SP, WORLD>> => accContent = HELLO \o SP \o WORLD

\* C5: one fragment without a delimiter, applied to the empty content, is
\* returned exactly, blanks at its ends included.
C5_FenceFreeKept ==
    (accTokens /\ accPrev = <<>> /\ NoDelimiter(accLast)) => accContent = accLast

\* C6: applying the empty fragment to the handler's own output changes nothing.
C6_IdempotentOnOutput ==
    accTokens => TokenContent(accContent, <<>>) = accContent

\* C7: after any sequence of token events the content holds no complete
\* fenced block.
C7_NoCompleteFence == ~HasCompleteFence(accContent)

\* C8: (a) while the text holds an opening delimiter and no complete block,
\* the content is that text with nothing but the blanks at its ends removed,
\* so the opener and the partial payload are still in it; (b) when the
\* content holds an open fence and the next token brings its closing
\* delimiter, with no further opener behind it, the content becomes the text
\* before the opener followed by the text after the closer (ends trimmed).
C8_OpenStays ==
    (accTokens /\ Contains(LastRaw, OPEN) /\ ~HasCompleteFence(LastRaw))
        => /\ accContent = Trim(LastRaw)
           /\ Contains(accContent, OPEN)

C8_ClosedRemoved ==
    \A k \in 1..Len(accPrev) : \A q \in 1..Len(LastRaw) :
        ( /\ accTokens
          /\ MatchAt(accPrev, k, OPEN)
          /\ \A j \in 1..(k - 1) : ~MatchAt(accPrev, j, OPEN)
          /\ ~HasCompleteFence(accPrev)
          /\ q >= k + Len(OPEN)
          /\ MatchAt(LastRaw, q, CLOSE)
          /\ \A j \in (k + Len(OPEN))..(q - 1) : ~MatchAt(LastRaw, j, CLOSE)
          /\ ~Contains(SubSeq(LastRaw, q + Len(CLOSE), Len(LastRaw)), OPEN) )
        => accContent =
             Trim(SubSeq(LastRaw, 1, k - 1)
                  \o SubSeq(LastRaw, q + Len(CLOSE), Len(LastRaw)))

C8_PartialFence == C8_OpenStays /\ C8_ClosedRemoved

\* an open fence after prose, then the closer and more prose: x, opener |
\* closer, blank, x
C8_Witness ==
    /\ accLast = CLOSE \o SP \o X
    /\ accPrev = X \o OPEN
    /\ accContent = X \o SP \o X

\* the text with its first two fenced blocks cut out, each block running
\* from an opening delimiter to the nearest closing delimiter after it;
\* <<"none">> when the text has no two such blocks
TwoBlocksCut(raw) ==
    LET o1 == FindFrom(raw, 1, OPEN)
        c1 == IF o1 = 0 THEN 0 ELSE FindFrom(raw, o1 + Len(OPEN), CLOSE)
        o2 == IF c1 = 0 THEN 0 ELSE FindFrom(raw, c1 + Len(CLOSE), OPEN)
        c2 == IF o2 = 0 THEN 0 ELSE FindFrom(raw, o2 + Len(OPEN), CLOSE)
    IN  IF c2 = 0 THEN <<"none">>
        ELSE SubSeq(raw, 1, o1 - 1)
                \o SubSeq(raw, c1 + Len(CLOSE), o2 - 1)
                \o SubSeq(raw, c2 + Len(CLOSE), Len(raw))

\* the text behind the second block holds no further complete block
NoThirdBlock(raw) ==
    LET o1 == FindFrom(raw, 1, OPEN)
        c1 == FindFrom(raw, o1 + Len(OPEN), CLOSE)
        o2 == FindFrom(raw, c1 + Len(CLOSE), OPEN)
        c2 == FindFrom(raw, o2 + Len(OPEN), CLOSE)
    IN  ~HasCompleteFence(SubSeq(raw, c2 + Len(CLOSE), Len(raw)))

\* C27: when the text the handler cleans holds two complete fenced blocks
\* and no third, both blocks are removed and the text before, between and
\* after them is kept in order, each block ending at the nearest closing
\* delimiter after its opener (ends trimmed).
C27_TwoBlocks ==
    (accTokens /\ TwoBlocksCut(LastRaw) # <<"none">> /\ NoThirdBlock(LastRaw))
        => accContent = Trim(TwoBlocksCut(LastRaw))

\* two empty blocks with x between them arrive in one fragment: x is left
C27_Witness ==
    /\ accPrev = <<>>
    /\ accLast = OPEN \o CLOSE \o X \o OPEN \o CLOSE
    /\ accContent = X

\* the widest span from an opening delimiter to the end of a closing
\* delimiter behind it: every complete block lies inside it; the empty span
\* behind the text when there is no complete block
WidestSpan(raw) ==
    LET p == FindFrom(raw, 1, OPEN)
        closers == {q \in 1..Len(raw) : MatchAt(raw, q, CLOSE)}
        q == IF closers = {} THEN 0 ELSE Max(closers)
    IN  IF p # 0 /\ q >= p + Len(OPEN)
        THEN [from |-> p, to |-> q + Len(CLOSE) - 1]
        ELSE [from |-> Len(raw) + 1, to |-> Len(raw)]

NonWs(str) == SelectSeq(str, LAMBDA c : ~IsWs(c))

\* the characters of the text outside every complete block, whitespace left out
Outside(raw) ==
    LET w == WidestSpan(raw)
    IN  NonWs(SubSeq(raw, 1, w.from - 1)) \o NonWs(SubSeq(raw, w.to + 1, Len(raw)))

\* whether every element of sub occurs in s, in the same order
RECURSIVE IsSubsequence(_, _)
IsSubsequence(sub, s) ==
    IF sub = <<>> THEN TRUE
    ELSE IF s = <<>> THEN FALSE
    ELSE IF Head(sub) = Head(s) THEN IsSubsequence(Tail(sub), Tail(s))
    ELSE IsSubsequence(sub, Tail(s))

\* C28: one application of the handler removes nothing outside a complete
\* fenced block but whitespace: the characters outside every block are all
\* in the content, in order; so a text with no complete block (an opener
\* and no closer behind it, or a closer and no opener before it) keeps all
\* its delimiters and loses only the whitespace at its ends.
C28_OutsideKept ==
    accTokens
        => /\ IsSubsequence(Outside(LastRaw), accContent)
           /\ ~HasCompleteFence(LastRaw) => accContent = Trim(LastRaw)

\* a closing delimiter with no opener before it, then an opening delimiter
\* with no closer behind it: both are in the content
C28_Witness ==
    /\ accPrev = <<>>
    /\ accLast = CLOSE \o X \o OPEN
    /\ accContent = CLOSE \o X \o OPEN

(***************************************************************************)
(* Properties of the read loop                                             *)
(***************************************************************************)
\* a line that is the marker followed by a JSON object
IsValidData(line) ==
    \E k \in {"done", "token"} : line = MARKER \o <<"{", k, "}">>

\* a line that has the marker and a payload that is no JSON text
IsMalformed(line) == MatchAt(line, 1, MARKER) /\ ~IsValidData(line)

\* the events of the valid data lines among lines, in the order of the lines
Expected(lines) ==
    LET valid == SelectSeq(lines, IsValidData)
    IN  [i \in 1..Len(valid) |-> [type |-> valid[i][Len(MARKER) + 2]]]

\* number of lines of the body whose newline has been read
CompleteLines == Cardinality({i \in 1..ssePos : Body[i] = LF})

\* C11: a line with the marker and a payload that is not valid JSON
\* dispatches nothing and does not fail the stream: the read loop never ends
\* by an exception, and for every such line read so far the dispatched
\* events are those of the valid lines before it followed by those of the
\* valid lines after it.
C11_MalformedDropped ==
    /\ sseStatus # "failed"
    /\ \A i \in 1..CompleteLines :
         IsMalformed(sseLines[i])
            => sseDispatched =
                 Expected(SubSeq(sseLines, 1, i - 1))
                    \o Expected(SubSeq(sseLines, i + 1, CompleteLines))

\* the body  data: {not valid json / data: {"type":"done"}  has been read to
\* its end and the loop has returned with the done event dispatched
C11_Witness ==
    /\ sseStatus = "returned"
    /\ sseTerminated
    /\ sseLines = <<MARKER \o BAD_JSON, MARKER \o DONE_JSON>>
    /\ sseDispatched = <<[type |-> "done"]>>

\* C12: however the body is cut into chunks, the events dispatched after
\* any number of reads are exactly the events of the valid data lines whose
\* newline has been read, each once and in the order of the lines; lines
\* without the marker dispatch nothing.  For a newline-terminated body that
\* has been read to its end these are the valid data lines of the body.
C12_ChunkingIndependent ==
    /\ sseStatus \in {"reading", "returned"}
         => sseDispatched = Expected(SubSeq(sseLines, 1, CompleteLines))
    /\ (sseStatus = "returned" /\ sseTerminated)
         => sseDispatched = Expected(sseLines)

\* a chunk has ended inside the marker of the third line, after a token line
\* and a line without the marker
C12_Witness ==
    /\ sseStatus = "reading"
    /\ sseLines = <<MARKER \o TOKEN_JSON, <<":">>, MARKER \o DONE_JSON>>
    /\ buffer = <<"d", "a", "t">>
    /\ sseDispatched = <<[type |-> "token"]>>

\* C24: when the stream closes, every valid data line of the body has been
\* dispatched, the last line included when it has no terminating newline:
\* the carried-over buffer is not dropped unprocessed.
C24_LastLineDispatched ==
    sseStatus = "returned" => sseDispatched = Expected(sseLines)

(***************************************************************************)
(* Properties of a send                                                    *)
(***************************************************************************)
Settled == send.pc = "settled"

\* positions of the streaming assistant message of the current send
StreamingAt == {i \in 1..Len(messages) : messages[i].id = send.assistantMsgId}

\* positions of the assistant messages the current send has produced
AssistantSide ==
    {i \in 1..Len(messages) :
        messages[i].role = "assistant" /\ messages[i].id >= send.userMsgId}

BeginsWithErr(content) == MatchAt(content, 1, <<"[", "E", "R", "R", "]">>)

\* stop() landed while the send was in flight, after a token had been applied
\* and before any terminal event
StoppedMidStream ==
    send.stopPhase # "none" /\ send.stopTokens >= 1 /\ ~send.stopTerminal

\* C1: a send stopped after token events and before a terminal event settles
\* with the streaming message gone from the list and no error message added.
C1_StopDiscards ==
    (Settled /\ StoppedMidStream)
        => /\ StreamingAt = {}
           /\ \A i \in AssistantSide : messages[i].type # "error"

\* C2: a stream the server closes before any done or error event, with no
\* stop, settles with the streaming message of type error, content "[ERR]...".
C2_IncompleteIsError ==
    (Settled /\ send.outcome = "returned" /\ send.stopPhase = "none" /\ ~send.terminal)
        => /\ StreamingAt # {}
           /\ \A i \in StreamingAt :
                messages[i].type = "error" /\ BeginsWithErr(messages[i].content)

\* C3: after a transport failure that is no cancellation (network error,
\* non-2xx status, missing body, failed read) the send has produced exactly
\* one assistant message; it is the streaming message, its type is error and
\* its content begins with "[ERR]".
C3_FailureVisible ==
    (Settled /\ send.failure # "none")
        => /\ Cardinality(AssistantSide) = 1
           /\ AssistantSide = StreamingAt
           /\ \A i \in AssistantSide :
                messages[i].type = "error" /\ BeginsWithErr(messages[i].content)

\* a non-2xx status: the placeholder has become the error message
C3_Witness ==
    /\ Settled
    /\ send.failure = "status"
    /\ \E i \in StreamingAt :
         /\ messages[i].type = "error"
         /\ messages[i].content = ERR \o INTERRUPTED \o NL \o <<"[500] ", "detail">>

\* C10: a done event adopts its sessionId only when the conversation has
\* none: a send that began with a session id leaves it as it was, and a send
\* that began without one ends with the sessionId of its first done event
\* that carried one, whatever later done events carry.
C10_SessionIdKept ==
    /\ send.sessionId # NoSession => sessionId = send.sessionId
    /\ (send.sessionId = NoSession /\ doneIds # <<>>) => sessionId = doneIds[1]
    /\ (send.sessionId = NoSession /\ doneIds = <<>>) => sessionId = NoSession

\* C13: every send that has set isLoading returns to idle: whenever the call
\* has settled (stream ended, failed, or stopped) isLoading is false, and,
\* provided the transport answers, isLoading never stays true for ever.
C13_ReturnsToIdle ==
    /\ [](Settled => ~isLoading)
    /\ isLoading ~> ~isLoading

\* a send stopped during the read loop has settled and the store is idle
C13_Witness ==
    /\ Settled
    /\ send.stopPhase = "read"
    /\ send.outcome = "returned"
    /\ ~isLoading

\* C14: an error event gives the streaming message the type error and the
\* content "[ERR] " followed by the event's message whenever the message
\* field is present, the empty string included, and by CONNECTION_INTERRUPTED
\* only when the field is absent.
C14_ErrorMessageShown ==
    [][\A e \in ErrorEvents :
          ReadEvent(e)
            => \A i \in StreamingAt :
                 /\ messages'[i].type = "error"
                 /\ messages'[i].content =
                      ERR \o (IF e.hasMessage THEN e.message ELSE INTERRUPTED)]_vars

\* the placeholder of the current send, as sendMessage appended it
Placeholder ==
    [id |-> send.assistantMsgId, role |-> "assistant", type |-> "text", content |-> <<>>]

\* C15: while the fetch of a send is pending nothing is dispatched: no step
\* changes the logs, the watch list or the session id, or counts a token or
\* a done event; and the step in which the call fails on a non-2xx status
\* changes the message list only by turning the still untouched placeholder
\* into the error message that carries the status and the body text.
C15_StatusFailsEarly ==
    [][send.pc = "fetch"
         => /\ logs' = logs
            /\ watchedIndicators' = watchedIndicators
            /\ sessionId' = sessionId
            /\ send'.tokens = 0
            /\ doneIds' = <<>>
            /\ send'.failure = "status"
                 => /\ messages[Len(messages)] = Placeholder
                    /\ messages' =
                         [messages EXCEPT ![Len(messages)] =
                            [Placeholder EXCEPT
                               !.type = "error",
                               !.content = ERR \o INTERRUPTED \o NL
                                             \o <<"[500] ", "detail">>]]]_vars

\* the second send of a conversation has failed on its status; the log line
\* of the first send is still the only one
C15_Witness ==
    /\ Settled
    /\ send.n = 2
    /\ send.failure = "status"
    /\ Len(logs) = 1
    /\ messages[Len(messages)].type = "error"

\* C16: once a done or error event has been dispatched, no later event of
\* the same stream changes the streaming message.
C16_FinalAfterTerminal ==
    [][(send.terminal /\ send.pc = "read" /\ send'.pc = "read")
          => \A i \in StreamingAt : messages'[i] = messages[i]]_vars

\* C17: once the signal of the send in flight is aborted, no event of its
\* stream is dispatched: until the call settles no step changes the logs,
\* the watch list, the session id or the token and done counts, and the
\* message list stays as it is, or loses the streaming message when the
\* pending fetch rejects.
C17_NothingAfterStop ==
    [][(abortControllerRef.aborted /\ send.pc \in {"fetch", "read"})
          => /\ logs' = logs
             /\ watchedIndicators' = watchedIndicators
             /\ sessionId' = sessionId
             /\ send'.tokens = send.tokens
             /\ send'.terminal = send.terminal
             /\ doneIds' = doneIds
             /\ \/ messages' = messages
                \/ /\ send.pc = "fetch"
                   /\ messages' =
                        SelectSeq(messages, LAMBDA m : m.id # send.assistantMsgId)]_vars

\* a send stopped during the read loop after one token has settled with
\* that one token applied
C17_Witness ==
    /\ Settled
    /\ send.stopPhase = "read"
    /\ send.stopTokens = 1
    /\ send.tokens = 1
    /\ \E i \in StreamingAt : messages[i].content = HELLO

\* C18: stop() while no send is in flight changes nothing in the chat store
\* or the watch list, and it does not carry over to the next send: every
\* send starts with a controller of its own whose signal is not aborted, so
\* the signal of a send in flight is aborted only by a stop() during it.
C18_IdleStopIsNoOp ==
    /\ [][(StopMessage /\ ~InFlight) => UNCHANGED <<chatVars, watchedIndicators>>]_vars
    /\ [][send'.n # send.n
            => abortControllerRef'.set /\ ~abortControllerRef'.aborted]_vars
    /\ []((InFlight /\ abortControllerRef.aborted) => send.stopPhase # "none")

\* stop() after the send had settled without a stop: the old controller is
\* aborted, the store is idle and the send's outcome stands
C18_Witness ==
    /\ Settled
    /\ send.stopPhase = "none"
    /\ send.outcome = "returned"
    /\ abortControllerRef.aborted
    /\ ~isLoading

\* C19: a tool_call or tool_result event appends exactly one line to the
\* logs and leaves every message, the session id and the watch list as they
\* were; the line of a tool_result holds, after the tool name, the first
\* 100 characters of the result at most.
C19_ToolEventsOnlyLog ==
    [][\A e \in ToolCallEvents \cup ToolResultEvents :
          ReadEvent(e)
            => /\ Len(logs') = Len(logs) + 1
               /\ SubSeq(logs', 1, Len(logs)) = logs
               /\ messages' = messages
               /\ sessionId' = sessionId
               /\ watchedIndicators' = watchedIndicators
               /\ e.type = "tool_result"
                    => LET line == logs'[Len(logs')]
                           shown == IF Len(e.result) < 100 THEN Len(e.result) ELSE 100
                       IN  line = <<"result", e.tool>> \o SubSeq(e.result, 1, shown)
                                     \o <<"...">>]_vars

\* the result of 101 characters has been logged with its first 100
C19_Witness ==
    /\ Len(logs) = 1
    /\ logs[1] = <<"result", "search">> \o [i \in 1..100 |-> "r"] \o <<"...">>

\* C20: of all stream events only a fred_search_results event with a
\* non-empty indicator list changes the watch list.
C20_OnlyFredChangesWatch ==
    [][\A e \in SSEEvents :
          (ReadEvent(e) /\ watchedIndicators' # watchedIndicators)
            => /\ e.type = "fred_search_results"
               /\ e.hasIndicators
               /\ Len(e.indicators) > 0]_vars

\* the watch list set by a fred_search_results event is still there after a
\* token and a done event of the same stream
C20_Witness ==
    /\ watchedIndicators = <<"B", "C", "A">>
    /\ send.tokens = 1
    /\ send.terminal

\* C21: a done event whose logs field is present and non-empty makes the
\* log sequence exactly that list; a done event without logs, or with an
\* empty list, leaves the log sequence as it is.
C21_DoneLogs ==
    [][\A e \in DoneEvents :
          ReadEvent(e)
            => logs' = IF e.hasLogs /\ e.logs # <<>> THEN e.logs ELSE logs]_vars

\* after a tool_call and a done event the logs are the server's list: the
\* client's tool line is gone
C21_Witness ==
    /\ send.types = <<"tool_call", "done">>
    /\ logs = <<<<"srv">>>>

\* the messages other than the streaming message of the current send
Others(msgs) == SelectSeq(msgs, LAMBDA m : m.id # send.assistantMsgId)

\* C23: the step in which a stopped send settles removes at most the
\* streaming assistant message: every other message, the user message of
\* that send included, stays in the list, in the same order.
C23_StopKeepsTheRest ==
    [][(InFlight /\ abortControllerRef.aborted /\ send'.pc = "settled")
          => /\ Others(messages') = Others(messages)
             /\ Len(messages') >= Len(messages) - 1
             /\ \E i \in 1..Len(messages') : messages'[i].id = send.userMsgId]_vars

\* a send stopped while its fetch was pending: the placeholder is gone, the
\* welcome message and the user's message are left
C23_Witness ==
    /\ Settled
    /\ send.outcome = "aborted"
    /\ messages =
         <<initialMessage,
           [id |-> 1, role |-> "user", type |-> "text", content |-> <<"h", "i">>]>>

\* C25: as soon as a done or error event has been handled, isLoading is
\* false, whether or not the server has closed the stream.
C25_TerminalIsIdle == send.terminal => ~isLoading

\* the left-to-right fold of the token handler over the fragments
RECURSIVE FoldTokens(_)
FoldTokens(fragments) ==
    IF fragments = <<>> THEN <<>>
    ELSE TokenContent(FoldTokens(SubSeq(fragments, 1, Len(fragments) - 1)),
                      fragments[Len(fragments)])

\* token events only, then one done event
TokensThenDone(types) ==
    /\ Len(types) >= 1
    /\ types[Len(types)] = "done"
    /\ \A i \in 1..(Len(types) - 1) : types[i] = "token"

\* C26: when a stream of token events followed by one done event has
\* closed, the streaming message is in the list with type text and its
\* content is the fold of the token handler over the fragments, starting
\* from the empty string.
C26_TokensThenDone ==
    (Settled /\ send.outcome = "returned" /\ send.stopPhase = "none"
        /\ TokensThenDone(send.types))
        => /\ StreamingAt # {}
           /\ \A i \in StreamingAt :
                /\ messages[i].type = "text"
                /\ messages[i].content = FoldTokens(send.fragments)

\* two tokens and a done event, then the stream closed
C26_Witness ==
    /\ Settled
    /\ send.outcome = "returned"
    /\ send.types = <<"token", "token", "done">>
    /\ send.fragments = <<HELLO, HELLO>>
    /\ \E i \in StreamingAt : messages[i].content = HELLO \o HELLO

\* C29: the step that begins a send appends the user message and then the
\* assistant placeholder (empty content, type text) to the message list,
\* sets isLoading and empties the chip list, and leaves the call waiting for
\* the fetch with no event dispatched.
C29_SendBegins ==
    [][send'.n # send.n
         => /\ Len(messages') = Len(messages) + 2
            /\ SubSeq(messages', 1, Len(messages)) = messages
            /\ messages'[Len(messages) + 1].role = "user"
            /\ messages'[Len(messages) + 1].id = send'.userMsgId
            /\ messages'[Len(messages) + 2] =
                 [id |-> send'.assistantMsgId, role |-> "assistant",
                  type |-> "text", content |-> <<>>]
            /\ isLoading'
            /\ chips' = <<>>
            /\ send'.pc = "fetch"
            /\ send'.types = <<>>]_vars

\* a send begun with one chip attached: the chip is named in the user
\* message, the placeholder follows it and the chip list is empty
C29_Witness ==
    /\ send.pc = "fetch"
    /\ isLoading
    /\ chips = <<>>
    /\ Len(messages) = 3
    /\ messages[2].content = <<BQ, "GDP", BQ, " ", "h", "i">>
    /\ messages[3].content = <<>>

(***************************************************************************)
(* Properties of the chat around the hook                                  *)
(***************************************************************************)
HasId(msgs, id) == \E i \in 1..Len(msgs) : msgs[i].id = id

\* C31: a token or error event changes only the message whose id is the
\* streaming id of the send that received it: the list keeps its length,
\* every message keeps its id and place, every other message is the same as
\* before, the rest of the store is untouched, and when no message has the
\* streaming id the list is the same as before.
C31_OnlyStreamingMessage ==
    [][\A k \in 1..Len(streams) : \A e \in ChatEvents :
        (e.type \in {"token", "error"} /\ StreamEvent(k, e)) =>
            /\ Len(messages') = Len(messages)
            /\ \A i \in 1..Len(messages) :
                  /\ messages'[i].id = messages[i].id
                  /\ messages'[i].role = messages[i].role
                  /\ messages[i].id # streams[k].id => messages'[i] = messages[i]
            /\ (~HasId(messages, streams[k].id) => messages' = messages)
            /\ UNCHANGED <<isLoading, sessionId, logs, chips, watchedIndicators>>]_vars

\* a token arrived for a stream whose message is gone (the user signed out
\* meanwhile) while the messages of a later send are in the list
C31_Witness ==
    /\ lastCall.op = "token"
    /\ ~lastCall.found
    /\ ~HasId(messages, lastCall.id)
    /\ \E i \in 1..Len(messages) : messages[i].role = "assistant"

\* C32: at most one send is in flight: no two streams are open at once, and
\* a sendMessage call made while isLoading is true in the store appends no
\* message, opens no stream and leaves the controller the ref holds in
\* place, whether or not the component has rendered since the send began.
C32_OneSendInFlight ==
    /\ [](Len(streams) <= 1)
    /\ [][\A text \in Texts :
            (isLoading /\ SendCall(text)) =>
                UNCHANGED <<messages, streams, signalOwner, abortControllerRef>>]_vars

\* C33: a click on New Chat or on a session of the history while isLoading
\* is true changes nothing: the messages (the streaming message among
\* them), the session id, the logs, the watch list, isLoading, the chips
\* and the session history are the same after the click.
C33_NoResetInFlight ==
    [][(isLoading /\ (NewChat \/ \E k \in 1..Len(sessions) : RestoreSession(k))) =>
          /\ UNCHANGED <<messages, sessionId, logs, watchedIndicators>>
          /\ UNCHANGED <<isLoading, chips, sessions>>
          /\ \A k \in 1..Len(streams) :
                HasId(messages, streams[k].id) => HasId(messages', streams[k].id)]_vars

\* a session of the history was clicked while a send was in flight, and the
\* send is still in flight with its streaming message in the list
C33_Witness ==
    /\ lastCall.op = "restore"
    /\ lastCall.found
    /\ isLoading
    /\ Len(sessions) > 0
    /\ \E k \in 1..Len(streams) : HasId(messages, streams[k].id)

\* C34: a sendMessage call with empty or whitespace-only text, made with an
\* empty chip list, does nothing: no message is appended, isLoading keeps
\* its value (false when no send is in flight), no stream is opened, no
\* controller is created and no id is used up.
C34_BlankSendIsNoOp ==
    [][\A text \in Texts :
        (Trim(text) = <<>> /\ Len(render.chips) = 0 /\ SendCall(text)) =>
            /\ UNCHANGED <<messages, isLoading, streams>>
            /\ UNCHANGED <<sessionId, logs, chips, abortControllerRef, signalOwner, nextId>>
            /\ (~isLoading => ~isLoading')]_vars

\* sendMessage was called with blank text and no chips while nothing was in
\* flight, and nothing is in flight afterwards
C34_Witness ==
    /\ lastCall.op = "sendMessage"
    /\ lastCall.blank
    /\ ~lastCall.found
    /\ ~isLoading
    /\ streams = <<>>
    /\ chips = <<>>

(***************************************************************************)
(* Properties of the session history                                       *)
(***************************************************************************)
\* C35: the session history never holds more than 20 entries and no two
\* entries share an id; saveSession for an id in the history (and a list
\* with a user message) gives that entry the new messages where it stands,
\* keeping the length of the list, every entry's id and createdAt and every
\* other entry as it was; saveSession with an empty session id or with a
\* list without a user message leaves the history as it was.
C35_History ==
    /\ [](/\ Len(sessions) <= HistoryLimit
          /\ \A i, j \in 1..Len(sessions) : i # j => sessions[i].id # sessions[j].id)
    /\ [][\A id \in HistoryIds : \A msgs \in Chats :
            HistSave(id, msgs) =>
              /\ (HasSession(sessions, id) /\ hasUserMsg(msgs)) =>
                    /\ Len(sessions') = Len(sessions)
                    /\ \A i \in 1..Len(sessions) :
                          /\ sessions'[i].id = sessions[i].id
                          /\ sessions'[i].createdAt = sessions[i].createdAt
                          /\ sessions[i].id # id => sessions'[i] = sessions[i]
                          /\ sessions[i].id = id =>
                                /\ sessions'[i].messages = msgs
                                /\ sessions'[i].updatedAt = clock'
              /\ (id \in {EmptyId, NoSession} \/ ~hasUserMsg(msgs)) =>
                    sessions' = sessions]_vars

\* a session that was not in a full history was saved: it stands first, the
\* history still has 20 entries and the oldest one is gone
C35_Witness ==
    /\ lastCall.op = "saveSession"
    /\ ~lastCall.found
    /\ Len(sessions) = HistoryLimit
    /\ sessions[1].id = SId(HistoryLimit + 1)
    /\ ~HasSession(sessions, SId(1))

(***************************************************************************)
(* Properties of the portfolio store                                       *)
(***************************************************************************)
\* C36: the holdings never contain two entries with the same ticker, also
\* while several addHolding calls for a ticker that was not held when they
\* were made await their responses, whatever the order of the responses.
C36_OnePerTicker ==
    \A i, j \in 1..Len(holdings) : i # j => holdings[i].ticker # holdings[j].ticker

\* the response of one addHolding call has put a ticker in the holdings
\* while another addHolding call, made when the ticker was not yet held,
\* still awaits its response
C36_Witness ==
    \E call \in pending :
        /\ call.op = "add"
        /\ call.isNew
        /\ HasTicker(holdings, call.ticker)
        /\ \E i \in 1..Len(holdings) :
              holdings[i].ticker = call.ticker /\ holdings[i].quantity # call.quantity

\* C37: every holding has a quantity greater than 0, after any sequence of
\* addHolding, updateQuantity and removeHolding calls with any quantities.
C37_PositiveQuantities ==
    \A i \in 1..Len(holdings) : holdings[i].quantity > 0

(***************************************************************************)
(* Properties of the chip list                                             *)
(***************************************************************************)
\* C38: the chip list never holds two chips with the same id, and addChip
\* with a chip whose id is in the list leaves the list as it was.
C38_UniqueChips ==
    /\ [](\A i, j \in 1..Len(chips) : i # j => chips[i].id # chips[j].id)
    /\ [][\A chip \in ChipDrops :
            (HasChip(chips, chip.id) /\ DropChip(chip)) => chips' = chips]_vars

\* a chip was dropped whose id was in the list, next to a chip with another
\* id, and the list still has its two chips
C38_Witness ==
    /\ lastCall.op = "addChip"
    /\ lastCall.found
    /\ Len(chips) = 2
    /\ HasChip(chips, lastCall.arg)

(***************************************************************************)
(* Properties of the watch list                                            *)
(***************************************************************************)
\* sector first, risk last, everything else (macro, missing, unknown) between
RankOf(category) ==
    IF category = "sector" THEN 0 ELSE IF category = "risk" THEN 2 ELSE 1

OfRank(inds, r) == SelectSeq(inds, LAMBDA x : RankOf(x.category) = r)

\* the ids of the indicators grouped by rank, each group in event order
IdsByRank(inds) ==
    LET grouped == OfRank(inds, 0) \o OfRank(inds, 1) \o OfRank(inds, 2)
    IN  [i \in 1..Len(grouped) |-> grouped[i].id]

\* C9: after a fred_search_results event with a non-empty indicator list the
\* watch list is the first at most 5 ids of the indicators grouped by rank
\* (sector, then macro or missing or unknown, then risk), each group in the
\* order of the event.
C9_WatchOrder ==
    (evFired /\ Len(evIndicators) > 0)
        => watchedIndicators =
             SubSeq(IdsByRank(evIndicators), 1,
                    IF Len(evIndicators) < 5 THEN Len(evIndicators) ELSE 5)

\* six indicators: risk first in the event, two sectors, a missing and an
\* unknown category; the risk one is ranked last and cut off
C9_Witness ==
    /\ evFired
    /\ evIndicators =
         << [id |-> "A", category |-> "risk"], [id |-> "B", category |-> "sector"],
            [id |-> "C", category |-> "none"], [id |-> "D", category |-> "macro"],
            [id |-> "E", category |-> "other"], [id |-> "F", category |-> "sector"] >>
    /\ watchedIndicators = <<"B", "F", "C", "D", "E">>

\* C22: in every reachable state the watch list holds at most 5 ids.
C22_AtMostFive == Len(watchedIndicators) <= 5

\* the list is full, and its fifth id was added by addWatchIndicator to the
\* four ids the store had kept
C22_Witness == watchedIndicators = <<"B", "C", "D", "E", "A">>

\* C30: in every reachable state the watch list holds no id twice.
C30_NoDuplicateIds ==
    \A i \in 1..Len(watchedIndicators) : \A j \in 1..Len(watchedIndicators) :
        watchedIndicators[i] = watchedIndicators[j] => i = j

====
